---- MODULE Spec2Model ----
(***************************************************************************)
(* A model of the bugview / jirapub gateway (the templated, entity-        *)
(* encoding variant): the three routes, the upstream JIRA call with its    *)
(* completion callback, the visibility check, format_issue and             *)
(* format_markup.                                                          *)
(*                                                                         *)
(* Representation.                                                         *)
(*  - A JavaScript string is a sequence of "pieces".  A character that     *)
(*    comes from outside (request, upstream document) is a piece of one    *)
(*    character; a literal of the program ('<h1>', '<br>\n', an entity     *)
(*    made by the encoder) is one piece holding the whole literal.  The    *)
(*    flat string is the concatenation of the pieces.                      *)
(*  - An optional JSON member is <<>> when it is absent (undefined) and    *)
(*    <<v>> when it is present with value v.                               *)
(*  - A function of the program that can throw yields a record with        *)
(*    thrown = TRUE instead of a value.                                    *)
(***************************************************************************)
EXTENDS Integers, Sequences, FiniteSets, TLC

VARIABLES
    CONFIG,   \* the configuration, read when the program is loaded
    TEMPLATES,\* the templates by name, loaded by read_templates
    JIRA,     \* the upstream client, <<>> until main has created it
    SERVER,   \* the HTTP server, <<>> until the listen callback has run
    main_pc,  \* the statement of main() that runs next, or "returned"
    pc,       \* per request slot: "idle", "connecting", "awaiting", "hung"
    req,      \* per request slot: the request being served
    trace,    \* per request slot: what the handler has done for it so far
    last,     \* the exchange whose handler path ended in the latest step
    mk_in,    \* format_markup exercised alone: its argument
    mk_out,   \* format_markup exercised alone: its result
    mk_pc     \* format_markup exercised alone: "in" or "out"

vars ==
    <<CONFIG, TEMPLATES, JIRA, SERVER, main_pc, pc, req, trace, last, mk_in, mk_out, mk_pc>>

\* the variables of the program that every request shares
globals == <<CONFIG, TEMPLATES, JIRA>>

\* where the start of the program has got to
startup == <<SERVER, main_pc>>

(***************************************************************************)
(* Bounds of the model.                                                    *)
(***************************************************************************)
MaxKeyLen == 3
MaxLines == 4

(***************************************************************************)
(* Optional members and sequences.                                         *)
(***************************************************************************)
None == <<>>
Some(v) == <<v>>
Has(o) == Len(o) > 0
Get(o) == o[1]

SeqsUpTo(S, n) == UNION {[1..k -> S] : k \in 0..n}

\* the concatenation of the sequences ss[lo], ..., ss[hi]
RECURSIVE Concat(_, _, _)
Concat(ss, lo, hi) ==
    IF lo > hi THEN <<>>
    ELSE IF lo = hi THEN ss[lo]
    ELSE LET mid == (lo + hi) \div 2 IN Concat(ss, lo, mid) \o Concat(ss, mid + 1, hi)

Flatten(ss) == Concat(ss, 1, Len(ss))

\* JavaScript's string concatenation of a member: undefined prints "undefined".
Str(o) == IF Has(o) THEN Get(o) ELSE <<"undefined">>

(***************************************************************************)
(* Configuration (config.json, read once by read_config).                  *)
(***************************************************************************)
read_config ==
    [label |-> "public", url |-> [path |-> "/rest/api/2"],
     username |-> "user", password |-> "secret"]

(***************************************************************************)
(* The templates directory, as read_templates loads it.  The files are     *)
(* not part of the sources; each is the text around its placeholder.       *)
(***************************************************************************)
read_templates ==
    [primary     |-> <<"[primary:head]", "%%CONTAINER%%", "[primary:tail]">>,
     issue_index |-> <<"[index:head]", "%%TABLE_BODY%%", "[index:tail]">>]

template(nam) == TEMPLATES[nam]

(***************************************************************************)
(* handle_issue's key test:  /^[A-Z]+-[0-9]+$/  run as an automaton.       *)
(* States: 0 start, 1 in the letters, 2 after the hyphen, 3 in the digits  *)
(* (accepting), 4 dead.  No 'm' flag: $ is the end of the input only.      *)
(***************************************************************************)
Upper == {"A", "B", "Z"}
Digit == {"0", "1", "9"}

KeyStep(q, c) ==
    CASE q = 0 -> IF c \in Upper THEN 1 ELSE 4
      [] q = 1 -> IF c \in Upper THEN 1 ELSE IF c = "-" THEN 2 ELSE 4
      [] q = 2 -> IF c \in Digit THEN 3 ELSE 4
      [] q = 3 -> IF c \in Digit THEN 3 ELSE 4
      [] OTHER -> 4

RECURSIVE KeyRun(_, _)
KeyRun(s, q) == IF Len(s) = 0 THEN q ELSE KeyRun(Tail(s), KeyStep(q, Head(s)))

\* The pattern without its closing anchor: a prefix of the key is enough.
RECURSIVE KeyRunPrefix(_, _)
KeyRunPrefix(s, q) ==
    IF q = 3 THEN 3
    ELSE IF Len(s) = 0 THEN q
    ELSE KeyRunPrefix(Tail(s), KeyStep(q, Head(s)))

KeyMatchUnanchored(s) == KeyRunPrefix(s, 0) = 3

\* key.match(/^[A-Z]+-[0-9]+$/)
KeyMatch(s) == KeyRun(s, 0) = 3

\* !req.params.key || !req.params.key.match(...)
KeyRejected(key) == ~Has(key) \/ Len(Get(key)) = 0 \/ ~KeyMatch(Get(key))

(***************************************************************************)
(* format_markup.                                                          *)
(* A text is a sequence of one-character pieces; "\n" and "\r" are the     *)
(* line-feed and carriage-return characters.  The pieces "{code" and       *)
(* "{noformat" stand for those runs of characters, so that a line starts   *)
(* with the marker exactly when its first piece is one of them.            *)
(***************************************************************************)
PRE_OPEN == "<pre style=\"border: 2px solid black;font-family: Menlo, Courier, Lucida Console, Monospace;background-color: #eeeeee;\">\n"
PRE_CLOSE == "</pre>\n"
BR == "<br>\n"
NL == "\n"

\* desc.split(/\r\n/): a bare line feed does not end a line
RECURSIVE SplitLinesCRLF(_, _)
SplitLinesCRLF(s, cur) ==
    IF Len(s) = 0 THEN <<cur>>
    ELSE IF Head(s) = "\r" /\ Len(s) >= 2 /\ s[2] = "\n"
         THEN <<cur>> \o SplitLinesCRLF(Tail(Tail(s)), <<>>)
    ELSE SplitLinesCRLF(Tail(s), Append(cur, Head(s)))

\* desc.split(/\r?\n/): cur is the line being collected.
RECURSIVE SplitLines(_, _)
SplitLines(s, cur) ==
    IF Len(s) = 0 THEN <<cur>>
    ELSE IF Head(s) = "\n" THEN <<cur>> \o SplitLines(Tail(s), <<>>)
    ELSE IF Head(s) = "\r" /\ Len(s) >= 2 /\ s[2] = "\n"
         THEN <<cur>> \o SplitLines(Tail(Tail(s)), <<>>)
    ELSE SplitLines(Tail(s), Append(cur, Head(s)))

\* a marker only when the line is nothing but the marker
IsFenceExact(line) == line \in {<<"{noformat">>, <<"{code">>}

\* line.match(/^{noformat/) || line.match(/^{code/)
IsFence(line) == Len(line) > 0 /\ Head(line) \in {"{noformat", "{code"}

\* mod_ent.encode on one character.
EncodeChar(c) ==
    CASE c = "&" -> "&amp;"
      [] c = "<" -> "&lt;"
      [] c = ">" -> "&gt;"
      [] c = "\"" -> "&quot;"
      [] c = "'" -> "&apos;"
      [] OTHER -> c

\* mod_ent.encode(line)
encode(line) == [i \in 1..Len(line) |-> EncodeChar(line[i])]

\* the loop with a block that is still open closed after the last line
RECURSIVE MarkupLoopAutoClose(_, _, _)
MarkupLoopAutoClose(lines, i, fmton) ==
    IF i > Len(lines) THEN (IF fmton THEN <<PRE_CLOSE>> ELSE <<>>)
    ELSE IF IsFence(lines[i])
         THEN <<IF fmton THEN PRE_CLOSE ELSE PRE_OPEN>>
              \o MarkupLoopAutoClose(lines, i + 1, ~fmton)
    ELSE encode(lines[i]) \o <<IF fmton THEN NL ELSE BR>>
         \o MarkupLoopAutoClose(lines, i + 1, fmton)

\* The body of format_markup's loop for the lines from position i on.
RECURSIVE MarkupLoop(_, _, _)
MarkupLoop(lines, i, fmton) ==
    IF i > Len(lines) THEN <<>>
    ELSE IF IsFence(lines[i])
         THEN <<IF fmton THEN PRE_CLOSE ELSE PRE_OPEN>>
              \o MarkupLoop(lines, i + 1, ~fmton)
    ELSE encode(lines[i]) \o <<IF fmton THEN NL ELSE BR>>
         \o MarkupLoop(lines, i + 1, fmton)

format_markup(desc) == MarkupLoop(SplitLines(desc, <<>>), 1, FALSE)

(***************************************************************************)
(* Results of the functions that can throw.  logs are the entries written  *)
(* to the process log before the function returned or threw.               *)
(***************************************************************************)
Ok(out) == [thrown |-> FALSE, out |-> out, logs |-> <<>>]
Thrown == [thrown |-> TRUE, out |-> <<>>, logs |-> <<>>]
Logged(msg) == [thrown |-> FALSE, out |-> <<>>, logs |-> <<msg>>]

\* a; b  (b is not run when a throws)
Then(a, b) ==
    IF a.thrown THEN a
    ELSE IF b.thrown THEN [thrown |-> TRUE, out |-> <<>>, logs |-> a.logs \o b.logs]
    ELSE [thrown |-> FALSE, out |-> a.out \o b.out, logs |-> a.logs \o b.logs]

(***************************************************************************)
(* new Date(s).toISOString(): the timestamps the upstream sends and their  *)
(* UTC form; any other argument (undefined included) is an Invalid Date,   *)
(* on which toISOString throws a RangeError.                               *)
(***************************************************************************)
DATES ==
    {[src |-> "2014-01-02T03:04:05.000+0100", iso |-> "2014-01-02T02:04:05.000Z"],
     [src |-> "2014-03-01T00:00:00.000+0000", iso |-> "2014-03-01T00:00:00.000Z"]}

ValidDate(o) == Has(o) /\ \E d \in DATES : d.src = Get(o)

toISOString(o) ==
    IF ValidDate(o)
    THEN Ok(<<(CHOOSE d \in DATES : d.src = Get(o)).iso>>)
    ELSE Thrown

(***************************************************************************)
(* format_issue, section by section.                                       *)
(***************************************************************************)
Heading(issue) ==
    Ok(<<"<h1>">> \o Str(issue.key) \o <<": ">>
       \o Str(Get(issue.fields).summary) \o <<"</h1>\n">>)

ResolutionSection(f) ==
    IF ~Has(f.resolution) THEN Ok(<<>>)
    ELSE Then(Ok(<<"<h2>Resolution</h2>\n", "<p><b>">>
                 \o Str(Get(f.resolution).name) \o <<":</b> ">>
                 \o Str(Get(f.resolution).description) \o <<"<br>\n">>
                 \o <<"(Resolution Date: ">>),
              Then(toISOString(f.resolutiondate), Ok(<<")</p>\n">>)))

RECURSIVE FixVersionLoop(_, _)
FixVersionLoop(fvs, i) ==
    IF i > Len(fvs) THEN <<>>
    ELSE <<"<p><b>">> \o Str(fvs[i].name) \o <<"</b> (Release Date: ">>
         \o Str(fvs[i].releaseDate) \o <<")</p>\n">>
         \o FixVersionLoop(fvs, i + 1)

FixVersionsSection(f) ==
    IF Has(f.fixVersions) /\ Len(Get(f.fixVersions)) > 0
    THEN Ok(<<"<h2>Fix Versions</h2>\n">> \o FixVersionLoop(Get(f.fixVersions), 1))
    ELSE Ok(<<>>)

\* a description is used when it is truthy: present and not the empty string
DescriptionSection(f) ==
    IF Has(f.description) /\ Len(Get(f.description)) > 0
    THEN Ok(<<"<h2>Description</h2>\n", "<div>">>
            \o format_markup(Get(f.description)) \o <<"</div>\n">>)
    ELSE Ok(<<>>)

\* format_markup(com.body): undefined has no split
MarkupOf(o) == IF Has(o) THEN Ok(format_markup(Get(o))) ELSE Thrown

\* com.author.displayName: undefined has no members
AuthorName(com) ==
    IF Has(com.author) THEN Ok(Str(Get(com.author).displayName)) ELSE Thrown

UpdatedLine(com) ==
    IF Has(com.updated) /\ com.updated # com.created
    THEN Then(Ok(<<"Updated at ">>), Then(toISOString(com.updated), Ok(<<"<br>\n">>)))
    ELSE Ok(<<>>)

CommentBlock(com, dark) ==
    Then(Ok(<<"<div style=\"background-color: ",
              IF dark THEN "#DDDDDD" ELSE "#EEEEEE", ";\">\n", "<b>", "Comment by ">>),
    Then(AuthorName(com),
    Then(Ok(<<"<br>\n", "Created at ">>),
    Then(toISOString(com.created),
    Then(Ok(<<"<br>\n">>),
    Then(UpdatedLine(com),
    Then(Ok(<<"</b>">>),
    Then(MarkupOf(com.body),
         Ok(<<"</div><br>\n">>)))))))))

RECURSIVE CommentLoop(_, _, _)
CommentLoop(coms, i, dark) ==
    IF i > Len(coms) THEN Ok(<<>>)
    ELSE Then(CommentBlock(coms[i], dark), CommentLoop(coms, i + 1, ~dark))

\* a comment list that is not whole (maxResults differs from total) is fatal
CommentsSectionStrict(f) ==
    IF ~Has(f.comment) THEN Ok(<<>>)
    ELSE LET c == Get(f.comment) IN
         Then(Ok(<<"<h2>Comments</h2>\n">>),
              IF c.maxResults # c.total
              THEN Then(Logged("comment maxResults and total not equal for issue"), Thrown)
              ELSE IF Has(c.comments) THEN CommentLoop(Get(c.comments), 1, FALSE)
              ELSE Thrown)

CommentsSection(f) ==
    IF ~Has(f.comment) THEN Ok(<<>>)
    ELSE LET c == Get(f.comment) IN
         Then(Ok(<<"<h2>Comments</h2>\n">>),
         Then(IF c.maxResults # c.total
              THEN Logged("comment maxResults and total not equal for issue")
              ELSE Ok(<<>>),
              \* c.comments.length: undefined has no length
              IF Has(c.comments) THEN CommentLoop(Get(c.comments), 1, FALSE)
              ELSE Thrown))

format_issue(issue) ==
    LET f == Get(issue.fields) IN
    Then(Heading(issue),
    Then(ResolutionSection(f),
    Then(FixVersionsSection(f),
    Then(DescriptionSection(f),
         CommentsSection(f)))))

(***************************************************************************)
(* String.prototype.replace(/placeholder/g, repl) with a string repl:      *)
(* every occurrence of the placeholder in the subject is replaced by repl, *)
(* in which $$ stands for $, $& for the matched text, $` for the subject   *)
(* before the match and $' for the subject after it.  An entity made by    *)
(* the encoder starts with '&', so '$' before an entity reads as $&        *)
(* followed by the rest of the entity.                                     *)
(***************************************************************************)
ENTITIES == {"&amp;", "&lt;", "&gt;", "&quot;", "&apos;"}

EntityRest(e) ==
    CASE e = "&amp;" -> "amp;"
      [] e = "&lt;" -> "lt;"
      [] e = "&gt;" -> "gt;"
      [] e = "&quot;" -> "quot;"
      [] e = "&apos;" -> "apos;"

\* what may follow '$' in a replacement pattern
PatternChars == {"$", "&", "`", "'"} \cup ENTITIES

\* a pattern starts at repl[i]: a '$' that is not the second character of a
\* pattern itself and is followed by a pattern character
RECURSIVE StartsPattern(_, _)
StartsPattern(repl, i) ==
    /\ i >= 1 /\ i < Len(repl)
    /\ repl[i] = "$"
    /\ repl[i + 1] \in PatternChars
    /\ ~StartsPattern(repl, i - 1)

\* what position i of the replacement contributes to the result
Expansion(repl, i, match, before, after) ==
    IF StartsPattern(repl, i)
    THEN LET n == repl[i + 1] IN
         CASE n = "$" -> <<"$">>
           [] n = "&" -> <<match>>
           [] n \in ENTITIES -> <<match, EntityRest(n)>>
           [] n = "`" -> before
           [] n = "'" -> after
    ELSE IF StartsPattern(repl, i - 1) THEN <<>>
    ELSE <<repl[i]>>

Expand(repl, match, before, after) ==
    Flatten([i \in 1..Len(repl) |-> Expansion(repl, i, match, before, after)])

RECURSIVE ReplaceFrom(_, _, _, _)
ReplaceFrom(subject, k, ph, repl) ==
    IF k > Len(subject) THEN <<>>
    ELSE (IF subject[k] = ph
          THEN Expand(repl, ph, SubSeq(subject, 1, k - 1),
                      SubSeq(subject, k + 1, Len(subject)))
          ELSE <<subject[k]>>)
         \o ReplaceFrom(subject, k + 1, ph, repl)

replace(subject, ph, repl) == ReplaceFrom(subject, 1, ph, repl)

(***************************************************************************)
(* What a handler does, in order: the events of one exchange.              *)
(***************************************************************************)
Ev(ev, status, text) == [ev |-> ev, status |-> status, text |-> text]

LogEv(level, msg, detail) == Ev("log", 0, <<level, msg>> \o detail)
SendEv(status, body) == Ev("send", status, body)       \* res.send(status[, body])
NextEv(arg) == Ev("next", 0, <<arg>>)                  \* next() / next(false)
UpstreamEv(url) == Ev("upstream", 0, url)              \* JIRA.get(url, callback)
HeaderEv(name, value) == Ev("header", 0, <<name>> \o value)

Path(events, thrown) == [events |-> events, thrown |-> thrown]

\* Array.prototype.indexOf, 0-based, -1 when no element is strictly equal
RECURSIVE IndexFrom(_, _, _)
IndexFrom(arr, x, i) ==
    IF i > Len(arr) THEN -1
    ELSE IF arr[i] = x THEN i - 1
    ELSE IndexFrom(arr, x, i + 1)

\* the search done without regard to letter case
LowerCase(l) == IF l \in {"Public", "PUBLIC"} THEN "public" ELSE l

indexOfNoCase(arr, x) ==
    IndexFrom([i \in 1..Len(arr) |-> LowerCase(arr[i])], LowerCase(x), 1)

indexOf(arr, x) == IndexFrom(arr, x, 1)

\* Characters outside ASCII, each a piece named by its code point, with its
\* size in UTF-16 code units and in UTF-8 bytes.  Every other piece is ASCII
\* text: one unit and one byte per character.
E_ACUTE == "U+00E9"
EURO == "U+20AC"
GRIN == "U+1F600"

Units(piece) ==
    CASE piece \in {E_ACUTE, EURO} -> 1
      [] piece = GRIN -> 2
      [] OTHER -> Len(piece)

Utf8(piece) ==
    CASE piece = E_ACUTE -> 2
      [] piece = EURO -> 3
      [] piece = GRIN -> 4
      [] OTHER -> Len(piece)

\* String.prototype.length of the flat string: UTF-16 code units
RECURSIVE UnitsIn(_, _, _)
UnitsIn(s, lo, hi) ==
    IF lo > hi THEN 0
    ELSE IF lo = hi THEN Units(s[lo])
    ELSE LET mid == (lo + hi) \div 2 IN UnitsIn(s, lo, mid) + UnitsIn(s, mid + 1, hi)

length(s) == UnitsIn(s, 1, Len(s))

\* res.write(out): the string goes out in UTF-8
RECURSIVE Utf8In(_, _, _)
Utf8In(s, lo, hi) ==
    IF lo > hi THEN 0
    ELSE IF lo = hi THEN Utf8(s[lo])
    ELSE LET mid == (lo + hi) \div 2 IN Utf8In(s, lo, mid) + Utf8In(s, mid + 1, hi)

byteLength(s) == Utf8In(s, 1, Len(s))

\* the end of both handlers' success path: contentType, contentLength,
\* writeHead(200), write(out), end(), next().  The contentLength event holds
\* the number declared, the write event the number of bytes written.
Deliver(out) ==
    <<HeaderEv("Content-Type", <<"text/html">>),
      Ev("contentLength", length(out), <<>>),
      Ev("writeHead", 200, <<>>),
      Ev("write", byteLength(out), out),
      Ev("end", 0, <<>>),
      NextEv("")>>

(***************************************************************************)
(* handle_issue: the part before the upstream call, and the callback.      *)
(***************************************************************************)
IssueUrl(key) == <<CONFIG.url.path, "/issue/">> \o Get(key)

handle_issue(r) ==
    IF KeyRejected(r.key)
    THEN Path(<<LogEv("error", "invalid \"key\" provided", Str(r.key)),
                SendEv(400, <<>>), NextEv("false")>>, FALSE)
    \* JIRA.get: undefined has no members
    ELSE IF ~Has(JIRA) THEN Path(<<>>, TRUE)
    ELSE Path(<<UpstreamEv(IssueUrl(r.key))>>, FALSE)

\* !issue || !issue.fields || !issue.fields.labels
BadFormat(obj) ==
    \/ ~Has(obj)
    \/ ~Has(Get(obj).fields)
    \/ ~Has(Get(Get(obj).fields).labels)

\* the handler without its visibility check
NotPublicNever(issue) == FALSE

\* issue.fields.labels.indexOf(CONFIG.label) === -1
NotPublic(issue) == indexOf(Get(Get(issue.fields).labels), CONFIG.label) = -1

\* a test that takes every client error (4xx) of the upstream for "not found"
IsNotFoundLoose(e) == e.name \in {"NotFoundError", "UnauthorizedError"}

\* _err.name === 'NotFoundError'
IsNotFound(e) == e.name = "NotFoundError"

handle_issue_callback(res) ==
    IF Has(res.err)
    THEN IF IsNotFound(Get(res.err))
         THEN Path(<<LogEv("error", "could not find issue", <<Get(res.err).message>>),
                     SendEv(404, <<"Sorry, that issue does not exist.\n">>),
                     NextEv("false")>>, FALSE)
         ELSE Path(<<LogEv("error", "error communicating with JIRA",
                           <<Get(res.err).message>>),
                     SendEv(500, <<>>), NextEv("false")>>, FALSE)
    ELSE IF BadFormat(res.obj)
    THEN Path(<<LogEv("error", "JIRA issue did not have expected format", <<>>),
                SendEv(500, <<>>), NextEv("false")>>, FALSE)
    ELSE IF NotPublic(Get(res.obj))
    THEN Path(<<Ev("public", 0, <<"no">>),
                LogEv("error", "request for non-public issue", <<>>),
                SendEv(403, <<"Sorry, this issue is not public.\n">>),
                NextEv("false")>>, FALSE)
    ELSE LET fi == format_issue(Get(res.obj))
             pre == <<Ev("public", 0, <<"yes">>),
                      LogEv("info", "serving issue", <<>>),
                      Ev("format_issue", 0, <<>>)>>
                    \o [i \in 1..Len(fi.logs) |-> LogEv("error", fi.logs[i], <<>>)]
         IN  IF fi.thrown THEN Path(pre, TRUE)
             ELSE Path(pre \o Deliver(replace(template("primary"),
                                              "%%CONTAINER%%", fi.out)), FALSE)

(***************************************************************************)
(* handle_issue_index: the part before the upstream call, and the callback.*)
(***************************************************************************)
SearchUrl ==
    <<CONFIG.url.path, "/search?jql=labels%20%3D%20%22", CONFIG.label,
      "%22&fields=summary">>

\* a handler that starts its response before it asks the upstream
handle_issue_index_early(r) ==
    Path(<<Ev("writeHead", 200, <<>>), UpstreamEv(SearchUrl)>>, FALSE)

handle_issue_index(r) ==
    \* JIRA.get: undefined has no members
    IF ~Has(JIRA) THEN Path(<<>>, TRUE)
    ELSE Path(<<UpstreamEv(SearchUrl)>>, FALSE)

\* one pass of the table loop; issue.fields.summary throws without fields
IndexRow(issue) ==
    IF Has(issue.fields)
    THEN Ok(<<"<tr><td><a href=\"">> \o Str(issue.key) \o <<"\">">>
            \o Str(issue.key) \o <<"</a></td><td>">>
            \o Str(Get(issue.fields).summary) \o <<"</td></tr>\n">>)
    ELSE Thrown

RECURSIVE IndexLoop(_, _)
IndexLoop(issues, i) ==
    IF i > Len(issues) THEN Ok(<<>>)
    ELSE Then(IndexRow(issues[i]), IndexLoop(issues, i + 1))

\* results.issues.length throws without results or without issues
IndexBody(obj) ==
    IF Has(obj) /\ Has(Get(obj).issues) THEN IndexLoop(Get(Get(obj).issues), 1)
    ELSE Thrown

handle_issue_index_callback(res) ==
    IF Has(res.err)
    THEN Path(<<LogEv("error", "error communicating with JIRA",
                      <<Get(res.err).message>>),
                SendEv(500, <<>>), NextEv("false")>>, FALSE)
    ELSE LET tb == IndexBody(res.obj)
             pre == <<LogEv("info", "serving issue index", <<>>)>>
         IN  IF tb.thrown THEN Path(pre, TRUE)
             ELSE Path(pre \o Deliver(
                         replace(template("primary"), "%%CONTAINER%%",
                                 replace(template("issue_index"),
                                         "%%TABLE_BODY%%", tb.out))), FALSE)

(***************************************************************************)
(* The route '/bugview'.                                                   *)
(***************************************************************************)
handle_root(r) ==
    Path(<<HeaderEv("Location", r.url \o <<"/index.html">>),
           SendEv(302, <<>>), NextEv("false")>>, FALSE)

(***************************************************************************)
(* Requests.                                                               *)
(***************************************************************************)
Slots == {"r1", "r2"}

KeyChars == {"A", "a", "-", "1"}

LongKeys ==
    {<<"A", "B", "-", "1", "9">>, <<"A", "-", "1", "a">>, <<"A", "-", "1", "\n">>,
     <<"a", "A", "-", "1">>, <<"A", "-", "1", "-">>, <<"A", "-", "-", "1">>}

Keys == {None} \cup {Some(k) : k \in SeqsUpTo(KeyChars, MaxKeyLen) \cup LongKeys}

RootUrls == {<<"/bugview">>, <<"/bugview", "?", "x">>}

NoReq == [route |-> "none", url |-> <<>>, key |-> None]
RootReq(url) == [route |-> "root", url |-> url, key |-> None]
IndexReq == [route |-> "index", url |-> <<"/bugview/", "index.html">>, key |-> None]
IssueReq(key) == [route |-> "issue", url |-> <<"/bugview/">> \o Str(key), key |-> key]

\* the path of a request URL: what precedes the query string
RECURSIVE PathOf(_)
PathOf(url) ==
    IF Len(url) = 0 \/ Head(url) = "?" THEN <<>>
    ELSE <<Head(url)>> \o PathOf(Tail(url))

\* The routes in the order create_http_server registers them; the first
\* that matches the path serves the request.
route(url) ==
    LET path == PathOf(url) IN
    IF path = <<"/bugview">> THEN "root"
    ELSE IF path = <<"/bugview/", "index.html">> THEN "index"
    ELSE IF Len(path) >= 2 /\ path[1] = "/bugview/" THEN "issue"
    ELSE "none"

(***************************************************************************)
(* What the upstream can answer: callback(_err, _req, _res, obj).          *)
(***************************************************************************)
Err(name, message) == [err |-> Some([name |-> name, message |-> message]), obj |-> None]
Doc(obj) == [err |-> None, obj |-> obj]

UpstreamErrors ==
    {Err("NotFoundError", "Issue Does Not Exist"),
     Err("NotFoundError", "no such issue"),
     Err("InternalServerError", "upstream stack trace"),
     Err("UnauthorizedError", "bad credentials"),
     Err("SyntaxError", "Unexpected token <"),
     Err("RequestTimeoutError", "request timed out")}

ConnectTimeoutError == Err("ConnectTimeoutError", "connect timeout after 15000ms")

K1 == <<"A", "-", "1">>
PLAIN == <<"t", "x", "t">>
MARKUP == <<"<", "b", ">", "&", "\"", "'">>
FENCED == <<"x", "\n", "{code", "\n", "<", "\n", "{code", "\r", "\n", "y">>
D1 == "2014-01-02T03:04:05.000+0100"
D2 == "2014-03-01T00:00:00.000+0000"

BaseFields ==
    [summary |-> Some(PLAIN), labels |-> Some(<<"public">>),
     resolution |-> None, resolutiondate |-> None, fixVersions |-> None,
     description |-> None, comment |-> None]

Resolution(name, description) == Some([name |-> name, description |-> description])
FixVersion(name, releaseDate) == [name |-> name, releaseDate |-> releaseDate]
Comment(author, created, updated, body) ==
    [author |-> author, created |-> created, updated |-> updated, body |-> body]
Author(displayName) == Some([displayName |-> displayName])
CommentList(maxResults, total, comments) ==
    Some([maxResults |-> maxResults, total |-> total, comments |-> comments])

C_PLAIN == Comment(Author(Some(PLAIN)), Some(D1), Some(D1), Some(PLAIN))
C_EDITED == Comment(Author(Some(PLAIN)), Some(D1), Some(D2), Some(FENCED))
C_MARKUP == Comment(Author(Some(MARKUP)), Some(D2), None, Some(MARKUP))

LabelLists ==
    {<<>>, <<"public">>, <<"Public">>, <<"PUBLIC">>, <<"publicx">>, <<"pub">>,
     <<"other">>, <<"other", "public">>, <<"public", "other">>,
     <<"Public", "xpublic", "pub">>}

\* fields that have the label list, with one optional member set
OptionalVariants ==
    {[BaseFields EXCEPT !.resolution = Resolution(Some(PLAIN), Some(PLAIN)),
                        !.resolutiondate = d] : d \in {None, Some(D1), Some("garbage")}}
    \cup {[BaseFields EXCEPT !.resolution = Resolution(n, Some(MARKUP)),
                             !.resolutiondate = Some(D1)] : n \in {None, Some(MARKUP)}}
    \cup {[BaseFields EXCEPT !.resolutiondate = Some(D1)]}
    \cup {[BaseFields EXCEPT !.fixVersions = Some(v)] :
            v \in {<<>>, <<FixVersion(Some(PLAIN), Some(PLAIN))>>,
                   <<FixVersion(Some(MARKUP), None), FixVersion(None, Some(MARKUP))>>}}
    \cup {[BaseFields EXCEPT !.description = Some(d)] :
            d \in {<<>>, PLAIN, MARKUP, FENCED, <<"{noformat">>}}
    \cup {[BaseFields EXCEPT !.comment = CommentList(m, 2, c)] :
            m \in {2, 5},
            c \in {None, Some(<<>>), Some(<<C_PLAIN>>), Some(<<C_PLAIN, C_EDITED>>),
                   Some(<<C_MARKUP, C_PLAIN, C_EDITED>>)}}
    \cup {[BaseFields EXCEPT !.comment = CommentList(1, 1, Some(<<c>>))] :
            c \in {Comment(None, Some(D1), None, Some(PLAIN)),
                   Comment(Author(None), Some(D1), None, Some(PLAIN)),
                   Comment(Author(Some(PLAIN)), None, None, Some(PLAIN)),
                   Comment(Author(Some(PLAIN)), Some("garbage"), None, Some(PLAIN)),
                   Comment(Author(Some(PLAIN)), Some(D1), Some("garbage"), Some(PLAIN)),
                   Comment(Author(Some(PLAIN)), Some(D1), None, None),
                   Comment(Author(Some(PLAIN)), Some(D1), None, Some(<<>>))}}
    \cup {[BaseFields EXCEPT !.summary = s] :
            s \in {None, Some(MARKUP), Some(<<"$", "&">>), Some(<<"caf", E_ACUTE>>),
                   Some(<<EURO, GRIN>>)}}

FullFields ==
    [summary |-> Some(PLAIN), labels |-> Some(<<"other", "public">>),
     resolution |-> Resolution(Some(PLAIN), Some(PLAIN)), resolutiondate |-> Some(D2),
     fixVersions |-> Some(<<FixVersion(Some(PLAIN), Some(PLAIN))>>),
     description |-> Some(FENCED),
     comment |-> CommentList(2, 2, Some(<<C_EDITED, C_PLAIN>>))]

IssueFields ==
    {[BaseFields EXCEPT !.labels = Some(l)] : l \in LabelLists}
    \cup {[BaseFields EXCEPT !.labels = None]}
    \cup OptionalVariants
    \cup {FullFields, [FullFields EXCEPT !.labels = Some(<<"Public", "other">>)],
          [FullFields EXCEPT !.labels = None]}

IssueDocs ==
    {None}
    \cup {Some([key |-> Some(K1), fields |-> None]), Some([key |-> None, fields |-> None])}
    \cup {Some([key |-> Some(K1), fields |-> Some(f)]) : f \in IssueFields}
    \cup {Some([key |-> None, fields |-> Some(f)]) :
            f \in {BaseFields, [BaseFields EXCEPT !.labels = Some(<<"other">>)],
                   [BaseFields EXCEPT !.labels = None]}}

IssueResults ==
    UpstreamErrors
    \cup {Doc(d) : d \in IssueDocs}
    \cup {[err |-> Some([name |-> "InternalServerError", message |-> "boom"]),
           obj |-> Some([key |-> Some(K1), fields |-> Some(BaseFields)])]}

Summary(key, summary) == [key |-> key, fields |-> Some([summary |-> summary])]

IndexDocs ==
    {None, Some([issues |-> None])}
    \cup {Some([issues |-> Some(l)]) :
            l \in {<<>>, <<Summary(Some(K1), Some(PLAIN))>>,
                   <<Summary(Some(<<"B", "-", "9">>), Some(PLAIN)),
                     Summary(Some(K1), Some(MARKUP))>>,
                   <<Summary(Some(K1), Some(PLAIN)), Summary(Some(K1), Some(PLAIN))>>,
                   <<Summary(None, None)>>,
                   <<Summary(Some(K1), Some(<<"$", "$", "5">>))>>,
                   <<Summary(Some(K1), Some(<<"caf", E_ACUTE>>))>>,
                   <<Summary(Some(K1), Some(PLAIN)), [key |-> Some(K1), fields |-> None]>>}}

IndexResults ==
    UpstreamErrors
    \cup {Doc(d) : d \in IndexDocs}
    \cup {[err |-> Some([name |-> "InternalServerError", message |-> "boom"]),
           obj |-> Some([issues |-> Some(<<Summary(Some(K1), Some(PLAIN))>>)])]}

(***************************************************************************)
(* Inputs of format_markup exercised alone: lines joined by line ends.     *)
(***************************************************************************)
MarkupLines ==
    {<<>>, <<"x", "<">>, <<"{code", ":", "x", "}">>, <<"{noformat">>,
     <<"x", "{code">>, <<"\r", "&">>}

EolStyles == {"lf", "crlf", "mixed"}

Eol(style, gap) ==
    IF style = "lf" \/ (style = "mixed" /\ gap % 2 = 1) THEN <<"\n">> ELSE <<"\r", "\n">>

RECURSIVE JoinFrom(_, _, _)
JoinFrom(ls, style, i) ==
    IF i = Len(ls) THEN ls[i]
    ELSE ls[i] \o Eol(style, i) \o JoinFrom(ls, style, i + 1)

\* the text whose lines are ls (at least one line: the empty text is one empty line)
TextOf(in) == JoinFrom(in.lines, in.style, 1)

MarkupInputs ==
    {[lines |-> ls, style |-> st] :
        ls \in SeqsUpTo(MarkupLines, MaxLines) \ {<<>>}, st \in EolStyles}

(***************************************************************************)
(* The state machine.                                                      *)
(***************************************************************************)
\* One exchange: the request, what the upstream answered (if it was asked
\* and answered), and everything done for the request, in order.
Exchange(slot, r, result, events, thrown) ==
    [slot |-> slot, req |-> r, result |-> result, events |-> events, thrown |-> thrown]

NoExchange == Exchange("none", NoReq, None, <<>>, FALSE)

\* a handler that ended in JIRA.get(...) is suspended until the callback
Suspended(p) == Len(p.events) > 0 /\ p.events[Len(p.events)].ev = "upstream"

\* mod_restify.createJsonClient({...}): a client without credentials yet
createJsonClient == [userAgent |-> "JoyentJIRAPublicAccess", auth |-> None]

\* JIRA.basicAuth(CONFIG.username, CONFIG.password)
basicAuth(client) ==
    [client EXCEPT !.auth = Some(<<CONFIG.username, CONFIG.password>>)]

\* The program when it has been loaded and main() is about to run:
\* var TEMPLATES = {}, var CONFIG = read_config(LOG), var JIRA, var SERVER.
ServerInit ==
    /\ CONFIG = read_config
    /\ TEMPLATES = [nam \in {} |-> <<>>]
    /\ JIRA = None
    /\ SERVER = None
    /\ main_pc = "read_templates"
    /\ pc = [r \in Slots |-> "idle"]
    /\ req = [r \in Slots |-> NoReq]
    /\ trace = [r \in Slots |-> <<>>]
    /\ last = NoExchange

MarkupIdle ==
    /\ mk_in = [lines |-> << <<>> >>, style |-> "lf"]
    /\ mk_out = <<>>
    /\ mk_pc = "in"

Init == ServerInit /\ MarkupIdle

(***************************************************************************)
(* main(), statement by statement.  main() runs to its end before the      *)
(* event loop delivers anything: the callback of s.listen, and with it     *)
(* the first request, comes after main() has returned.                     *)
(***************************************************************************)
Served == <<pc, req, trace, last, mk_in, mk_out, mk_pc>>

\* read_templates(LOG)
MainReadTemplates ==
    /\ main_pc = "read_templates"
    /\ TEMPLATES' = read_templates
    /\ main_pc' = "create_http_server"
    /\ UNCHANGED <<CONFIG, JIRA, SERVER, Served>>

\* create_http_server(LOG, ...): the routes are registered and s.listen is
\* called; its callback is left to the event loop
MainCreateHttpServer ==
    /\ main_pc = "create_http_server"
    /\ main_pc' = "createJsonClient"
    /\ UNCHANGED <<globals, SERVER, Served>>

\* JIRA = mod_restify.createJsonClient({...})
MainCreateJsonClient ==
    /\ main_pc = "createJsonClient"
    /\ JIRA' = Some(createJsonClient)
    /\ main_pc' = "basicAuth"
    /\ UNCHANGED <<CONFIG, TEMPLATES, SERVER, Served>>

\* JIRA.basicAuth(CONFIG.username, CONFIG.password), the last statement
MainBasicAuth ==
    /\ main_pc = "basicAuth"
    /\ JIRA' = Some(basicAuth(Get(JIRA)))
    /\ main_pc' = "returned"
    /\ UNCHANGED <<CONFIG, TEMPLATES, SERVER, Served>>

\* the listen callback run as soon as s.listen has been called, while
\* main() is still running
ListeningEarly ==
    /\ main_pc \in {"createJsonClient", "basicAuth", "returned"}
    /\ ~Has(SERVER)
    /\ SERVER' = Some("jirapub")
    /\ UNCHANGED <<globals, main_pc, Served>>

\* the event loop runs the callback of s.listen: SERVER = s, and requests
\* are taken from now on
Listening ==
    /\ main_pc = "returned"
    /\ ~Has(SERVER)
    /\ SERVER' = Some("jirapub")
    /\ UNCHANGED <<globals, main_pc, Served>>

\* one request at a time: none is taken while another is in flight
StartSerial(s, r, p) ==
    /\ Has(SERVER)
    /\ last = NoExchange
    /\ \A t \in Slots : pc[t] = "idle"
    /\ route(r.url) = r.route
    /\ IF Suspended(p)
       THEN /\ pc' = [pc EXCEPT ![s] = "connecting"]
            /\ req' = [req EXCEPT ![s] = r]
            /\ trace' = [trace EXCEPT ![s] = p.events]
            /\ UNCHANGED last
       ELSE /\ last' = Exchange(s, r, None, p.events, p.thrown)
            /\ UNCHANGED <<pc, req, trace>>
    /\ UNCHANGED <<globals, startup, mk_in, mk_out, mk_pc>>

\* the request kept in one place for all the requests in flight
StartShared(s, r, p) ==
    /\ Has(SERVER)
    /\ last = NoExchange
    /\ pc[s] = "idle"
    /\ route(r.url) = r.route
    /\ IF Suspended(p)
       THEN /\ pc' = [pc EXCEPT ![s] = "connecting"]
            /\ req' = [t \in Slots |-> r]
            /\ trace' = [trace EXCEPT ![s] = p.events]
            /\ UNCHANGED last
       ELSE /\ last' = Exchange(s, r, None, p.events, p.thrown)
            /\ UNCHANGED <<pc, req, trace>>
    /\ UNCHANGED <<globals, startup, mk_in, mk_out, mk_pc>>

\* a request is routed to a handler, which runs until it returns
Start(s, r, p) ==
    /\ Has(SERVER)
    /\ last = NoExchange
    /\ pc[s] = "idle"
    /\ route(r.url) = r.route
    /\ IF Suspended(p)
       THEN /\ pc' = [pc EXCEPT ![s] = "connecting"]
            /\ req' = [req EXCEPT ![s] = r]
            /\ trace' = [trace EXCEPT ![s] = p.events]
            /\ UNCHANGED last
       ELSE /\ last' = Exchange(s, r, None, p.events, p.thrown)
            /\ UNCHANGED <<pc, req, trace>>
    /\ UNCHANGED <<globals, startup, mk_in, mk_out, mk_pc>>

GetRoot(s) == \E url \in RootUrls : Start(s, RootReq(url), handle_root(RootReq(url)))

GetIssueIndex(s) == Start(s, IndexReq, handle_issue_index(IndexReq))

GetIssue(s) == \E key \in Keys : Start(s, IssueReq(key), handle_issue(IssueReq(key)))

\* the upstream accepts the connection within the connect timeout
Connect(s) ==
    /\ last = NoExchange
    /\ pc[s] = "connecting"
    /\ pc' = [pc EXCEPT ![s] = "awaiting"]
    /\ UNCHANGED <<globals, startup, req, trace, last, mk_in, mk_out, mk_pc>>

\* JIRA.get's callback runs with what the upstream answered.  When it
\* throws, nothing in the program catches the exception: the HTTP framework
\* may answer for the handler (its default 'uncaughtException' listener
\* sends 500), and otherwise the request is never answered.
Callback(s, res) ==
    LET p == IF req[s].route = "issue" THEN handle_issue_callback(res)
             ELSE handle_issue_index_callback(res)
    IN  /\ last = NoExchange
        /\ \E caught \in (IF p.thrown THEN BOOLEAN ELSE {TRUE}) :
            /\ last' = Exchange(s, req[s], Some(res),
                         trace[s] \o p.events \o
                         (IF p.thrown /\ caught
                          THEN <<Ev("uncaughtException", 500, <<"InternalError">>)>>
                          ELSE <<>>),
                         p.thrown)
            /\ IF caught
               THEN /\ pc' = [pc EXCEPT ![s] = "idle"]
                    /\ req' = [req EXCEPT ![s] = NoReq]
                    /\ trace' = [trace EXCEPT ![s] = <<>>]
               ELSE /\ pc' = [pc EXCEPT ![s] = "hung"]
                    /\ UNCHANGED <<req, trace>>
        /\ UNCHANGED <<globals, startup, mk_in, mk_out, mk_pc>>

\* connectTimeout: 15000 -- no connection in time fails the call
ConnectTimeout(s) ==
    /\ pc[s] = "connecting"
    /\ Callback(s, ConnectTimeoutError)

Reply(s) ==
    /\ pc[s] = "awaiting"
    /\ \E res \in (IF req[s].route = "issue" THEN IssueResults ELSE IndexResults) :
          Callback(s, res)

\* The record of an ended exchange is an observation, not a state of the
\* program: it is taken off before the next step.
Forget ==
    /\ last # NoExchange
    /\ last' = NoExchange
    /\ UNCHANGED <<globals, startup, pc, req, trace, mk_in, mk_out, mk_pc>>

Next ==
    \/ \E s \in Slots :
        \/ GetRoot(s)
        \/ GetIssueIndex(s)
        \/ GetIssue(s)
        \/ Connect(s)
        \/ ConnectTimeout(s)
        \/ Reply(s)
    \/ Forget
    \/ MainReadTemplates
    \/ MainCreateHttpServer
    \/ MainCreateJsonClient
    \/ MainBasicAuth
    \/ Listening

Spec == Init /\ [][Next]_vars

\* The connect phase ends within the connect timeout, one way or the other,
\* and a request that arrived is handled.  Nothing bounds the wait for the
\* answer of a connected upstream.
FairSpec ==
    /\ Spec
    /\ WF_vars(Forget)
    /\ \A s \in Slots : WF_vars(Connect(s) \/ ConnectTimeout(s))

(***************************************************************************)
(* format_markup exercised alone on every input of MarkupInputs.           *)
(***************************************************************************)
MarkupInit ==
    /\ ServerInit
    /\ mk_in \in MarkupInputs
    /\ mk_out = <<>>
    /\ mk_pc = "in"

Render ==
    /\ mk_pc = "in"
    /\ mk_out' = format_markup(TextOf(mk_in))
    /\ mk_pc' = "out"
    /\ UNCHANGED <<globals, startup, pc, req, trace, last, mk_in>>

MarkupNext == Render

MarkupSpec == MarkupInit /\ [][MarkupNext]_vars

(***************************************************************************)
(* Reading an exchange.                                                    *)
(***************************************************************************)
EventsOf(x, kinds) == {i \in 1..Len(x.events) : x.events[i].ev \in kinds}

Ended(x) == x.slot # "none"

\* responses written by the handlers, and by anyone
HandlerResponses(x) == Cardinality(EventsOf(x, {"send", "end"}))
Responses(x) == Cardinality(EventsOf(x, {"send", "end", "uncaughtException"}))

\* the status line of the response; 0 when there is none
Status(x) ==
    LET st == EventsOf(x, {"send", "writeHead", "uncaughtException"}) IN
    IF st = {} THEN 0 ELSE x.events[CHOOSE i \in st : \A j \in st : i <= j].status

RECURSIVE BodyFrom(_, _)
BodyFrom(x, i) ==
    IF i > Len(x.events) THEN <<>>
    ELSE (IF x.events[i].ev \in {"send", "write", "uncaughtException"}
          THEN x.events[i].text ELSE <<>>) \o BodyFrom(x, i + 1)

Body(x) == BodyFrom(x, 1)

UpstreamCalls(x) == Cardinality(EventsOf(x, {"upstream"}))

(***************************************************************************)
(* Reading what the upstream answered in an exchange.                      *)
(***************************************************************************)
Range(f) == {f[i] : i \in 1..Len(f)}

IssueExchange(x) == Ended(x) /\ x.req.route = "issue"
IndexExchange(x) == Ended(x) /\ x.req.route = "index"

UpstreamError(x) == Has(x.result) /\ Has(Get(x.result).err)
ErrorName(x) == Get(Get(x.result).err).name

\* the upstream answered without an error
Fetched(x) == Has(x.result) /\ ~Has(Get(x.result).err)
Document(x) == Get(x.result).obj

\* the fetched issue has a label list
HasLabelList(x) ==
    /\ Fetched(x) /\ Has(Document(x))
    /\ Has(Get(Document(x)).fields)
    /\ Has(Get(Get(Document(x)).fields).labels)

LabelSet(x) == Range(Get(Get(Get(Document(x)).fields).labels))

NOT_PUBLIC_BODY == <<"Sorry, this issue is not public.\n">>
NOT_FOUND_BODY == <<"Sorry, that issue does not exist.\n">>

(***************************************************************************)
(* C1.  In GetIssue the page composer runs, and issue content is written,  *)
(* only after the fetched issue has passed the visibility check; when the  *)
(* configured label is not among the issue's labels the response is 403    *)
(* with the fixed body and nothing of the issue in it.                     *)
(***************************************************************************)
C1_ComposeOnlyAfterVisibilityCheck ==
    IssueExchange(last) =>
        /\ \A i \in EventsOf(last, {"format_issue", "writeHead", "write"}) :
              /\ \E j \in 1..(i - 1) :
                    /\ last.events[j].ev = "public"
                    /\ last.events[j].text = <<"yes">>
              /\ HasLabelList(last)
              /\ CONFIG.label \in LabelSet(last)
        /\ (HasLabelList(last) /\ CONFIG.label \notin LabelSet(last)) =>
              /\ Status(last) = 403
              /\ Body(last) = NOT_PUBLIC_BODY
              /\ Responses(last) = 1
              /\ EventsOf(last, {"format_issue", "writeHead", "write"}) = {}

\* a non-public issue that has content to leak was refused
C1_Witness ==
    /\ IssueExchange(last)
    /\ HasLabelList(last)
    /\ LabelSet(last) = {"Public", "other"}
    /\ Has(Get(Get(Document(last)).fields).description)
    /\ Status(last) = 403

(***************************************************************************)
(* C2.  A GetIssue request whose key does not have the form                *)
(* LETTERS '-' DIGITS (capital letters, whole key) is answered 400 without *)
(* any upstream call; an upstream issue fetch is issued only for keys of   *)
(* that form.                                                              *)
(***************************************************************************)
WellFormedKey(key) ==
    /\ Has(key)
    /\ LET k == Get(key) IN
       \E h \in 2..(Len(k) - 1) :
          /\ k[h] = "-"
          /\ \A i \in 1..(h - 1) : k[i] \in Upper
          /\ \A i \in (h + 1)..Len(k) : k[i] \in Digit

C2_BadKeyRejectedBeforeUpstream ==
    /\ IssueExchange(last) =>
          /\ ~WellFormedKey(last.req.key) =>
                /\ Status(last) = 400
                /\ UpstreamCalls(last) = 0
                /\ ~Has(last.result)
          /\ UpstreamCalls(last) > 0 => WellFormedKey(last.req.key)
    /\ \A s \in Slots :
          (req[s].route = "issue" /\ trace[s] # <<>>) => WellFormedKey(req[s].key)

\* a key that starts like a good one was refused without an upstream call
C2_Witness ==
    /\ IssueExchange(last)
    /\ last.req.key = Some(<<"A", "-", "1", "a">>)
    /\ Status(last) = 400
    /\ UpstreamCalls(last) = 0

(***************************************************************************)
(* C3.  In GetIssue an upstream error named NotFoundError gives 404 with   *)
(* the fixed body and every other upstream error gives 500; in             *)
(* GetIssueIndex every upstream error gives 500.  No upstream error gives  *)
(* 200, 403 or 400.                                                        *)
(***************************************************************************)
C3_UpstreamErrorStatus ==
    (Ended(last) /\ UpstreamError(last)) =>
        /\ Status(last) \notin {200, 403, 400}
        /\ Responses(last) = 1
        /\ IssueExchange(last) =>
              IF ErrorName(last) = "NotFoundError"
              THEN Status(last) = 404 /\ Body(last) = NOT_FOUND_BODY
              ELSE Status(last) = 500
        /\ IndexExchange(last) => Status(last) = 500

\* an issue that does not exist was asked for
C3_Witness ==
    /\ IssueExchange(last)
    /\ UpstreamError(last)
    /\ ErrorName(last) = "NotFoundError"
    /\ Status(last) = 404

(***************************************************************************)
(* C4.  In GetIssue a fetched document that lacks a required member of the *)
(* Issue shape (key, fields, fields.summary, fields.labels) is a format    *)
(* error: the response is 500, the visibility check is not reached and     *)
(* nothing is rendered.                                                    *)
(***************************************************************************)
LacksRequiredMember(x) ==
    \/ ~Has(Document(x))
    \/ ~Has(Get(Document(x)).key)
    \/ ~Has(Get(Document(x)).fields)
    \/ ~Has(Get(Get(Document(x)).fields).summary)
    \/ ~Has(Get(Get(Document(x)).fields).labels)

C4_MissingRequiredMemberIsFormatError ==
    (IssueExchange(last) /\ Fetched(last) /\ LacksRequiredMember(last)) =>
        /\ Status(last) = 500
        /\ EventsOf(last, {"public", "format_issue", "write"}) = {}

(***************************************************************************)
(* C5.  Every request produces exactly one response on every handler path  *)
(* and for every upstream outcome, and nothing is done for the request     *)
(* after its response except handing control back (next).                  *)
(***************************************************************************)
C5_ExactlyOneResponse ==
    Ended(last) =>
        /\ Responses(last) = 1
        /\ \A i \in EventsOf(last, {"send", "end"}) :
              \A j \in (i + 1)..Len(last.events) : last.events[j].ev = "next"

(***************************************************************************)
(* C6.  Every accepted request is eventually answered: an upstream call    *)
(* that does not answer in time fails the request with 500, and no request *)
(* stays pending forever.                                                  *)
(***************************************************************************)
C6_EveryRequestAnswered ==
    \A s \in Slots : (pc[s] = "connecting") ~> (pc[s] = "idle")

(***************************************************************************)
(* C7.  For a fetched document that passes the shape check, the visibility *)
(* decision is "public" exactly when the configured label is an element of *)
(* fields.labels (whole string, case-sensitive); otherwise the answer is   *)
(* 403, and 200 is answered only for a public issue.                       *)
(***************************************************************************)
DecidedPublic(x) ==
    \E i \in EventsOf(x, {"public"}) : x.events[i].text = <<"yes">>

C7_PublicIffLabelIsElement ==
    (IssueExchange(last) /\ HasLabelList(last)) =>
        /\ Cardinality(EventsOf(last, {"public"})) = 1
        /\ DecidedPublic(last) <=> (CONFIG.label \in LabelSet(last))
        /\ (Status(last) = 403) <=> (CONFIG.label \notin LabelSet(last))
        /\ (Status(last) = 200) => (CONFIG.label \in LabelSet(last))
        /\ (CONFIG.label \in LabelSet(last) /\ ~last.thrown) => Status(last) = 200

\* labels that only resemble the configured one did not make the issue public
C7_Witness ==
    /\ IssueExchange(last)
    /\ HasLabelList(last)
    /\ LabelSet(last) = {"Public", "xpublic", "pub"}
    /\ ~DecidedPublic(last)
    /\ Status(last) = 403

(***************************************************************************)
(* C8.  In every 200 page every character that came from the upstream      *)
(* reaches the body escaped: no '&', '<', '>' or quote character of the    *)
(* upstream is in the body as it was.                                      *)
(***************************************************************************)
MarkupChars == {"&", "<", ">", "\"", "'"}

C8_UpstreamTextEscaped ==
    (Ended(last) /\ Status(last) = 200) =>
        \A i \in 1..Len(Body(last)) : Body(last)[i] \notin MarkupChars

(***************************************************************************)
(* C9.  format_issue never throws for an issue that has the required       *)
(* members, whatever optional members are absent.                          *)
(***************************************************************************)
C9_ComposerNeverThrows ==
    (/\ IssueExchange(last) /\ Fetched(last) /\ ~LacksRequiredMember(last)
     /\ EventsOf(last, {"format_issue"}) # {})
        => ~last.thrown

(***************************************************************************)
(* Reading the output of format_markup as terminated lines.                *)
(***************************************************************************)
Terminators(out) == {i \in 1..Len(out) : out[i] \in {BR, NL}}

\* the position of the k-th terminator
TerminatorAt(out, k) ==
    CHOOSE p \in Terminators(out) :
        Cardinality({q \in Terminators(out) : q <= p}) = k

\* the k-th output line, without its terminator
OutputLine(out, k) ==
    SubSeq(out, IF k = 1 THEN 1 ELSE TerminatorAt(out, k - 1) + 1,
           TerminatorAt(out, k) - 1)

\* o is the line l with its markup characters turned into entities
EscapedAs(l, o) ==
    /\ Len(o) = Len(l)
    /\ \A j \in 1..Len(l) :
          IF l[j] \in MarkupChars THEN o[j] \in ENTITIES ELSE o[j] = l[j]

NoFenceLine(in) ==
    \A k \in 1..Len(in.lines) :
        ~(Len(in.lines[k]) > 0 /\ in.lines[k][1] \in {"{code", "{noformat"})

\* one output line per input line, in order: the escaped line and '<br>\n'
PlainLineByLine ==
    /\ Cardinality(Terminators(mk_out)) = Len(mk_in.lines)
    /\ Len(mk_out) > 0 => mk_out[Len(mk_out)] = BR
    /\ \A k \in 1..Len(mk_in.lines) :
          /\ mk_out[TerminatorAt(mk_out, k)] = BR
          /\ EscapedAs(mk_in.lines[k], OutputLine(mk_out, k))
    /\ \A i \in 1..Len(mk_out) : mk_out[i] \notin {PRE_OPEN, PRE_CLOSE}

(***************************************************************************)
(* C10 as stated.  For a text without a fence-marker line format_markup    *)
(* emits one terminated line per input line, in order, each the escaped    *)
(* line followed by '<br>' and a newline, and no '<pre>'; for the empty    *)
(* string the output is empty.                                             *)
(***************************************************************************)
C10_PlainTextEmptyGivesEmpty ==
    (mk_pc = "out" /\ NoFenceLine(mk_in)) =>
        /\ PlainLineByLine
        /\ TextOf(mk_in) = <<>> => mk_out = <<>>

(***************************************************************************)
(* C10 as amended.  For a text without a fence-marker line format_markup   *)
(* emits one terminated line per input line, in order, each the escaped    *)
(* line followed by '<br>' and a newline, and no '<pre>'; the empty string *)
(* is one empty line, so its output is the single line '<br>\n'.           *)
(***************************************************************************)
C10_PlainTextLineByLine ==
    (mk_pc = "out" /\ NoFenceLine(mk_in)) =>
        /\ PlainLineByLine
        /\ TextOf(mk_in) = <<>> => mk_out = <<BR>>

\* three lines with markup characters and both kinds of line end were rendered
C10_Witness ==
    /\ mk_pc = "out"
    /\ NoFenceLine(mk_in)
    /\ mk_in.style = "mixed"
    /\ mk_in.lines = << <<"x", "<">>, <<>>, <<"\r", "&">> >>
    /\ Len(mk_out) = 7

(***************************************************************************)
(* Reading the output of format_markup against the lines of its input:     *)
(* a marker line gives one piece (a tag), any other line gives its         *)
(* characters and one terminator.                                          *)
(***************************************************************************)
FenceLines(in) ==
    {k \in 1..Len(in.lines) :
        Len(in.lines[k]) > 0 /\ in.lines[k][1] \in {"{code", "{noformat"}}

PiecesOf(in, k) == IF k \in FenceLines(in) THEN 1 ELSE Len(in.lines[k]) + 1

RECURSIVE PiecesUpTo(_, _)
PiecesUpTo(in, k) == IF k = 0 THEN 0 ELSE PiecesUpTo(in, k - 1) + PiecesOf(in, k)

\* what the output holds for input line k
Emitted(in, out, k) == SubSeq(out, PiecesUpTo(in, k - 1) + 1, PiecesUpTo(in, k))

MarkersBefore(in, k) == Cardinality({j \in FenceLines(in) : j < k})

Positions(out, piece) == {i \in 1..Len(out) : out[i] = piece}

\* input line k is in the output as its escaped text and the terminator t
EmittedAs(in, out, k, t) ==
    LET e == Emitted(in, out, k) IN
    /\ Len(e) = Len(in.lines[k]) + 1
    /\ EscapedAs(in.lines[k], SubSeq(e, 1, Len(e) - 1))
    /\ e[Len(e)] = t

(***************************************************************************)
(* C11.  For a text with exactly one pair of fence-marker lines (with or   *)
(* without attributes after the marker) format_markup emits exactly one    *)
(* '<pre ...>' and one '</pre>', the opening first; the lines between the  *)
(* markers are emitted escaped, in order, each ended by a bare newline;    *)
(* the marker lines give nothing but the tags; the lines outside the pair  *)
(* are ended by '<br>'.                                                    *)
(***************************************************************************)
C11_OneFencePairOnePreBlock ==
    (mk_pc = "out" /\ Cardinality(FenceLines(mk_in)) = 2) =>
        LET a == CHOOSE k \in FenceLines(mk_in) : \A j \in FenceLines(mk_in) : k <= j
            b == CHOOSE k \in FenceLines(mk_in) : \A j \in FenceLines(mk_in) : k >= j
        IN  /\ Len(mk_out) = PiecesUpTo(mk_in, Len(mk_in.lines))
            /\ Cardinality(Positions(mk_out, PRE_OPEN)) = 1
            /\ Cardinality(Positions(mk_out, PRE_CLOSE)) = 1
            /\ \A i \in Positions(mk_out, PRE_OPEN) :
                  \A j \in Positions(mk_out, PRE_CLOSE) : i < j
            /\ Emitted(mk_in, mk_out, a) = <<PRE_OPEN>>
            /\ Emitted(mk_in, mk_out, b) = <<PRE_CLOSE>>
            /\ \A k \in (1..Len(mk_in.lines)) \ {a, b} :
                  EmittedAs(mk_in, mk_out, k, IF a < k /\ k < b THEN NL ELSE BR)

\* a line before the pair, a marker with attributes, a line with markup
\* characters inside the pair and a bare closing marker were rendered
C11_Witness ==
    /\ mk_pc = "out"
    /\ mk_in.lines = << <<"x", "<">>, <<"{code", ":", "x", "}">>, <<"\r", "&">>,
                        <<"{noformat">> >>
    /\ mk_in.style = "crlf"
    /\ mk_out = <<"x", "&lt;", BR, PRE_OPEN, "\r", "&amp;", NL, PRE_CLOSE>>

(***************************************************************************)
(* Reading the comment blocks of an issue page.                            *)
(***************************************************************************)
\* the fetched issue is public and has a comment object with its array
HasComments(x) ==
    /\ HasLabelList(x)
    /\ CONFIG.label \in LabelSet(x)
    /\ Has(Get(Get(Document(x)).fields).comment)
    /\ Has(Get(Get(Get(Document(x)).fields).comment).comments)

CommentObject(x) == Get(Get(Get(Document(x)).fields).comment)
CommentArray(x) == Get(CommentObject(x).comments)

\* every entry of the array has an author, a body and a creation time that
\* parses, and an update time that parses when it has one
WellFormedComments(x) ==
    \A k \in 1..Len(CommentArray(x)) :
        LET com == CommentArray(x)[k] IN
        /\ Has(com.author) /\ Has(Get(com.author).displayName)
        /\ Has(com.body)
        /\ \E d \in DATES : com.created = <<d.src>>
        /\ Has(com.updated) => \E d \in DATES : com.updated = <<d.src>>

\* the start of the k-th comment block in a body
BlockAt(body, k) ==
    CHOOSE p \in Positions(body, "Comment by ") :
        Cardinality({q \in Positions(body, "Comment by ") : q <= p}) = k

\* the k-th block is headed by this comment's author and creation time
BlockShows(body, k, com) ==
    LET p == BlockAt(body, k)
        nm == Get(Get(com.author).displayName)
        n == Len(nm)
    IN  /\ Len(body) >= p + n + 3
        /\ SubSeq(body, p + 1, p + n) = nm
        /\ body[p + n + 1] = "<br>\n"
        /\ body[p + n + 2] = "Created at "
        /\ \E d \in DATES : com.created = <<d.src>> /\ body[p + n + 3] = d.iso

MISMATCH_MESSAGE == "comment maxResults and total not equal for issue"

(***************************************************************************)
(* C12.  When the comment object of a public issue has maxResults          *)
(* different from total, GetIssue still answers 200, the page has one      *)
(* comment block per element of the returned array, in array order and no  *)
(* other, the mismatch is logged, and the request made one upstream call   *)
(* only.                                                                   *)
(***************************************************************************)
C12_CommentCountMismatchStillServed ==
    (/\ IssueExchange(last) /\ HasComments(last) /\ WellFormedComments(last)
     /\ CommentObject(last).maxResults # CommentObject(last).total) =>
        /\ Status(last) = 200
        /\ Responses(last) = 1
        /\ Cardinality(Positions(Body(last), "Comment by ")) = Len(CommentArray(last))
        /\ \A k \in 1..Len(CommentArray(last)) :
              BlockShows(Body(last), k, CommentArray(last)[k])
        /\ \E i \in EventsOf(last, {"log"}) :
              /\ MISMATCH_MESSAGE \in Range(last.events[i].text)
              /\ \A j \in EventsOf(last, {"writeHead", "write", "send"}) : i < j
        /\ UpstreamCalls(last) = 1

\* maxResults 5 and total 2 came with an array of three, and all three were shown
C12_Witness ==
    /\ IssueExchange(last)
    /\ HasComments(last)
    /\ CommentObject(last).maxResults = 5
    /\ CommentObject(last).total = 2
    /\ CommentArray(last) = <<C_MARKUP, C_PLAIN, C_EDITED>>
    /\ Status(last) = 200
    /\ Cardinality(Positions(Body(last), "Comment by ")) = 3

(***************************************************************************)
(* Reading the rows of an index page.                                      *)
(***************************************************************************)
ROW_OPEN == "<tr><td><a href=\""

\* the upstream answered the search with an array of issues that all have
\* their fields
HasIssueArray(x) ==
    /\ Fetched(x) /\ Has(Document(x)) /\ Has(Get(Document(x)).issues)
    /\ \A k \in 1..Len(Get(Get(Document(x)).issues)) :
          /\ Has(Get(Get(Document(x)).issues)[k].fields)
          /\ Has(Get(Get(Document(x)).issues)[k].key)
          /\ Has(Get(Get(Get(Document(x)).issues)[k].fields).summary)

IssueArray(x) == Get(Get(Document(x)).issues)

RowAt(body, k) ==
    CHOOSE p \in Positions(body, ROW_OPEN) :
        Cardinality({q \in Positions(body, ROW_OPEN) : q <= p}) = k

\* the k-th row links to the key and shows the summary
RowShows(body, k, key, summary) ==
    LET p == RowAt(body, k)
        row == <<ROW_OPEN>> \o key \o <<"\">">> \o key \o <<"</a></td><td>">>
               \o summary \o <<"</td></tr>\n">>
    IN  /\ Len(body) >= p + Len(row) - 1
        /\ SubSeq(body, p, p + Len(row) - 1) = row

(***************************************************************************)
(* C13.  A GetIssueIndex whose upstream result holds n issues is answered  *)
(* 200 with a page of exactly n rows, one per returned issue in the order  *)
(* returned, each row linking to the issue's key and showing its summary.  *)
(***************************************************************************)
C13_OneRowPerIssueInOrder ==
    (IndexExchange(last) /\ HasIssueArray(last)) =>
        /\ Status(last) = 200
        /\ Cardinality(Positions(Body(last), ROW_OPEN)) = Len(IssueArray(last))
        /\ \A k \in 1..Len(IssueArray(last)) :
              RowShows(Body(last), k, Get(IssueArray(last)[k].key),
                       Get(Get(IssueArray(last)[k].fields).summary))

(***************************************************************************)
(* C14.  On every 200 response of GetIssue and GetIssueIndex the declared  *)
(* Content-Length is the number of bytes of the body that is written,      *)
(* whatever the body holds, characters of more than one byte included.     *)
(***************************************************************************)
C14_ContentLengthIsByteLength ==
    (Ended(last) /\ Status(last) = 200) =>
        /\ Cardinality(EventsOf(last, {"contentLength"})) = 1
        /\ Cardinality(EventsOf(last, {"write"})) = 1
        /\ \A i \in EventsOf(last, {"contentLength"}) :
              \A j \in EventsOf(last, {"write"}) :
                 /\ i < j
                 /\ last.events[i].status = last.events[j].status

(***************************************************************************)
(* C15.  Every GET routed to the bare index root, whatever the exact URL   *)
(* that matched (a query string included), is answered 302 with the        *)
(* Location '/bugview/index.html' and without an upstream call; a request  *)
(* for '/bugview/index.html' is served by the index handler, never as an   *)
(* issue key.                                                              *)
(***************************************************************************)
CANONICAL_INDEX == <<"/bugview", "/index.html">>

C15_RootRedirectsToCanonicalIndex ==
    /\ (Ended(last) /\ last.req.route = "root") =>
          /\ Status(last) = 302
          /\ Responses(last) = 1
          /\ UpstreamCalls(last) = 0
          /\ Cardinality(EventsOf(last, {"header"})) = 1
          /\ \A i \in EventsOf(last, {"header"}) :
                last.events[i].text = <<"Location">> \o CANONICAL_INDEX
    /\ (Ended(last) /\ PathOf(last.req.url) = <<"/bugview/", "index.html">>) =>
          /\ last.req.route = "index"
          /\ \A i \in EventsOf(last, {"upstream"}) : last.events[i].text = SearchUrl

(***************************************************************************)
(* C16.  Per request at most one upstream call is made: a failed call is   *)
(* not retried and fails the request at once.  For a request that makes an *)
(* upstream call, no status and no body is written before the call's       *)
(* completion callback has run.                                            *)
(***************************************************************************)
Written == {"send", "writeHead", "write", "end", "uncaughtException"}

C16_OneUpstreamCallThenResponse ==
    /\ \A s \in Slots :
          pc[s] \in {"connecting", "awaiting"} =>
             /\ Cardinality({i \in 1..Len(trace[s]) : trace[s][i].ev = "upstream"}) = 1
             /\ \A i \in 1..Len(trace[s]) : trace[s][i].ev \notin Written
    /\ Ended(last) =>
          /\ UpstreamCalls(last) <= 1
          /\ UpstreamCalls(last) = 1 <=> Has(last.result)
          /\ \A u \in EventsOf(last, {"upstream"}) :
                \A w \in EventsOf(last, Written) : u < w
          /\ UpstreamError(last) =>
                /\ Status(last) \in {404, 500}
                /\ Responses(last) = 1
                /\ EventsOf(last, {"writeHead", "write"}) = {}

\* a failed upstream call ended its request with 500 after a single call,
\* while the other request was still waiting with nothing written
C16_Witness ==
    /\ IssueExchange(last)
    /\ UpstreamError(last)
    /\ ErrorName(last) = "RequestTimeoutError"
    /\ UpstreamCalls(last) = 1
    /\ Status(last) = 500
    /\ \E s \in Slots : pc[s] = "awaiting" /\ req[s].route = "index"

(***************************************************************************)
(* C17.  In format_markup the opening and closing tags alternate, opening  *)
(* first, one tag per marker line: k markers give ceil(k/2) '<pre' tags    *)
(* and floor(k/2) '</pre>' tags, so an odd number of markers leaves one    *)
(* '<pre>' unclosed; a line that is not a marker is ended by a bare        *)
(* newline exactly when an odd number of markers precede it, and by        *)
(* '<br>' otherwise.                                                       *)
(***************************************************************************)
OpensUpTo(out, i) == Cardinality({p \in Positions(out, PRE_OPEN) : p <= i})
ClosesUpTo(out, i) == Cardinality({p \in Positions(out, PRE_CLOSE) : p <= i})

C17_PreTagsAlternate ==
    mk_pc = "out" =>
        LET k == Cardinality(FenceLines(mk_in)) IN
        /\ Len(mk_out) = PiecesUpTo(mk_in, Len(mk_in.lines))
        /\ Cardinality(Positions(mk_out, PRE_OPEN)) = (k + 1) \div 2
        /\ Cardinality(Positions(mk_out, PRE_CLOSE)) = k \div 2
        /\ \A i \in 1..Len(mk_out) :
              OpensUpTo(mk_out, i) - ClosesUpTo(mk_out, i) \in {0, 1}
        /\ \A j \in 1..Len(mk_in.lines) :
              IF j \in FenceLines(mk_in)
              THEN Emitted(mk_in, mk_out, j) =
                     <<IF MarkersBefore(mk_in, j) % 2 = 0 THEN PRE_OPEN ELSE PRE_CLOSE>>
              ELSE EmittedAs(mk_in, mk_out, j,
                             IF MarkersBefore(mk_in, j) % 2 = 1 THEN NL ELSE BR)

\* three markers were rendered: a closed block and a second one left open
C17_Witness ==
    /\ mk_pc = "out"
    /\ mk_in.lines = << <<"{code", ":", "x", "}">>, <<"x", "<">>, <<"{noformat">>,
                        <<"{code", ":", "x", "}">> >>
    /\ mk_out = <<PRE_OPEN, "x", "&lt;", NL, PRE_CLOSE, PRE_OPEN>>

(***************************************************************************)
(* What the handlers do for one request taken alone: the handler on the    *)
(* request, then the callback on what the upstream answered to it.         *)
(***************************************************************************)
OwnEvents(r, result) ==
    (CASE r.route = "root" -> handle_root(r)
       [] r.route = "index" -> handle_issue_index(r)
       [] OTHER -> handle_issue(r)).events
    \o (IF ~Has(result) THEN <<>>
        ELSE IF r.route = "issue" THEN handle_issue_callback(Get(result)).events
        ELSE handle_issue_index_callback(Get(result)).events)

Alone(x) == Exchange(x.slot, x.req, x.result, OwnEvents(x.req, x.result), FALSE)

AnsweredAsAlone ==
    (Ended(last) /\ ~last.thrown) =>
        /\ Status(last) = Status(Alone(last))
        /\ Body(last) = Body(Alone(last))
        /\ Responses(last) = 1
        \* the upstream was asked about this request's key and nothing else
        /\ last.events = OwnEvents(last.req, last.result)

(***************************************************************************)
(* C18.  Whatever the interleaving of the requests in flight, handling a   *)
(* request writes none of the variables the requests share (the            *)
(* configuration, the templates, the upstream client), and the status and  *)
(* body of each response are those that the request's own key and its own  *)
(* upstream result give, whichever other requests are in flight and in     *)
(* whatever order the callbacks complete.                                  *)
(***************************************************************************)
C18_NoSharedStateWritten ==
    /\ [](AnsweredAsAlone)
    /\ [][main_pc = "returned" => UNCHANGED globals]_vars

\* an issue page was served while a request for another issue, made
\* earlier or later, was still waiting for its answer
C18_Witness ==
    /\ IssueExchange(last)
    /\ Status(last) = 200
    /\ \E s \in Slots :
          /\ s # last.slot
          /\ pc[s] = "awaiting"
          /\ req[s].route = "issue"
          /\ req[s].key # last.req.key

(***************************************************************************)
(* C19.  No request waits behind another: while a request is suspended on  *)
(* its upstream call, a second request can be taken and answered at once   *)
(* (a 400 for a bad key, a redirect), or can start its own upstream call   *)
(* and have it completed, before the first call returns.                   *)
(***************************************************************************)
InFlight(s) == pc[s] \in {"connecting", "awaiting"}

C19_NoRequestWaitsBehindAnother ==
    \A s \in Slots : \A t \in Slots \ {s} :
        (InFlight(s) /\ last = NoExchange) =>
            /\ pc[t] = "idle" =>
                  /\ ENABLED GetIssue(t)
                  /\ ENABLED GetIssueIndex(t)
                  /\ ENABLED GetRoot(t)
            /\ pc[t] = "connecting" => ENABLED (Connect(t) \/ ConnectTimeout(t))
            /\ pc[t] = "awaiting" => ENABLED Reply(t)

\* a request with a bad key was answered 400 while another was waiting for
\* the upstream
C19_Witness ==
    /\ IssueExchange(last)
    /\ Status(last) = 400
    /\ \E s \in Slots \ {last.slot} : pc[s] = "awaiting" /\ req[s].route = "issue"

(***************************************************************************)
(* C20.  A 500 response carries no detail of the error: whatever the       *)
(* upstream error or the malformed document was, the client gets the same  *)
(* 500 (a status without a body); the detail goes to the log only, and     *)
(* the error is logged before the response is sent.                        *)
(***************************************************************************)
ErrorLogs(x) ==
    {i \in EventsOf(x, {"log"}) : x.events[i].text[1] = "error"}

C20_ErrorDetailOnlyInLog ==
    (Ended(last) /\ Status(last) = 500) =>
        /\ Body(last) = <<>>
        /\ Responses(last) = 1
        /\ \E i \in ErrorLogs(last) : \A j \in EventsOf(last, Written) : i < j
        /\ UpstreamError(last) =>
              \E i \in ErrorLogs(last) :
                 Get(Get(last.result).err).message \in Range(last.events[i].text)

(***************************************************************************)
(* A template with each occurrence of its placeholder replaced by a        *)
(* fragment that is copied as it is.                                       *)
(***************************************************************************)
Verbatim(subject, ph, fragment) ==
    Flatten([i \in 1..Len(subject) |->
                IF subject[i] = ph THEN fragment ELSE <<subject[i]>>])

\* the page that the fetched document gives when the fragments are copied
PageOf(x) ==
    IF x.req.route = "issue"
    THEN Verbatim(read_templates.primary, "%%CONTAINER%%",
                  format_issue(Get(Document(x))).out)
    ELSE Verbatim(read_templates.primary, "%%CONTAINER%%",
                  Verbatim(read_templates.issue_index, "%%TABLE_BODY%%",
                           IndexBody(Document(x)).out))

(***************************************************************************)
(* C21.  On a 200 response the body is the outer template with every       *)
(* occurrence of its placeholder replaced by the composed fragment, copied *)
(* as it is whatever it holds: upstream text with '$&', '$`', "$'" or      *)
(* '$$' in it reaches the body unchanged, and no template text is          *)
(* duplicated.                                                             *)
(***************************************************************************)
C21_FragmentCopiedVerbatim ==
    (Ended(last) /\ Status(last) = 200) => Body(last) = PageOf(last)

(***************************************************************************)
(* C22.  Startup order.  The templates are loaded and the upstream client  *)
(* is created and given its credentials before any request handler can     *)
(* run, although the HTTP server is created and told to listen before the  *)
(* client is assigned: whenever a handler runs or has run, the client is   *)
(* defined and the 'primary' and 'issue_index' templates are loaded, and   *)
(* neither is changed afterwards.                                          *)
(***************************************************************************)
\* requests are being taken, or one has been
HandlerCanRun ==
    \/ Has(SERVER)
    \/ \E s \in Slots : pc[s] # "idle"
    \/ Ended(last)

Ready ==
    /\ main_pc = "returned"
    /\ Has(JIRA)
    /\ Has(Get(JIRA).auth)
    /\ {"primary", "issue_index"} \subseteq DOMAIN TEMPLATES
    /\ \A nam \in {"primary", "issue_index"} : Len(TEMPLATES[nam]) > 0

StartupOrder ==
    /\ HandlerCanRun => Ready
    \* s.listen has been called and the client is not assigned yet
    /\ main_pc = "createJsonClient" => (~Has(JIRA) /\ ~HandlerCanRun)
    \* no handler found the client or a template missing
    /\ Ended(last) => Len(last.events) > 0

C22_ClientAndTemplatesBeforeHandlers ==
    /\ [](StartupOrder)
    /\ [][HandlerCanRun => UNCHANGED <<TEMPLATES, JIRA>>]_vars

\* after the start, the index handler used the client and both templates
C22_Witness ==
    /\ IndexExchange(last)
    /\ Status(last) = 200
    /\ "[index:head]" \in Range(Body(last))
    /\ "[primary:head]" \in Range(Body(last))
    /\ Ready

====
